---- MODULE Spec2Model ----
(***************************************************************************)
(* State-machine model of the Bluetooth thermal-printer transfer protocol  *)
(* of printer-bluetooth: the connection state kept in refs / globals, the  *)
(* print handler (handlePrint), the setup handler (handleSetupPrinter),    *)
(* the transfer sequence (sendPrinterData, sendImageData, sendFeedDots,    *)
(* sendFeedLines) and the link writer (writeChunk).                        *)
(*                                                                         *)
(* The repository holds the transfer code three times with different       *)
(* constants and small behavioural differences:                            *)
(*   "hook"   src/src/hooks/use-bluetooth-printer.js lines 1-292           *)
(*   "app"    src/unnamed/part_001 (the App component)                     *)
(*   "script" src/src/hooks/use-bluetooth-printer.js lines 294-1231        *)
(* The variable `profile` says which of them is running.                   *)
(*                                                                         *)
(* One action is one run of JavaScript between two suspension points: an   *)
(* event handler or a promise continuation runs to its next pending await  *)
(* of a peripheral operation or timer.                                     *)
(***************************************************************************)
EXTENDS Integers, Sequences, FiniteSets, TLC

\* ------------------------------------------------------------------ constants

BLE_CHUNK_SIZE_WITH_RESPONSE == 20
BLE_CHUNK_SIZE_WITHOUT_RESPONSE == 120
BLE_WRITE_DELAY_WITH_RESPONSE_MS == 2
BLE_WRITE_DELAY_WITHOUT_RESPONSE_MS == 10
APP_CHUNK_SIZE_WITH_RESPONSE == 256
APP_CHUNK_SIZE_WITHOUT_RESPONSE == 120
APP_WRITE_DELAY_WITH_RESPONSE_MS == 10
APP_WRITE_DELAY_WITHOUT_RESPONSE_MS == 30
BATCH_SIZE == 256
BLE_WRITE_DELAY_MS == 10
DEFAULT_FEED_LINES == 2
DEFAULT_FEED_DOTS == 50
HEADER_LENGTH == 8

Profiles == {"hook", "app", "script"}

\* The handler invocations (handlePrint or handleSetupPrinter) that may be in
\* flight at once: nothing in the handlers keeps a second click from starting
\* one while the first is suspended.
Procs == {"p1", "p2"}

\* The peripherals the chooser can return.
Devices == {"d1"}

\* imageDataForPrint: <<>> is null, <<width, height>> a prepared bitmap.
NoImage == <<>>
Images == {<<8, 22>>, <<8, 122>>, <<8, 258>>}

\* The bitmaps followed are those a profile sends in at most MaxChunks
\* acknowledged chunks.
MaxChunks == 7

\* The handler invocations (button clicks) followed in one behaviour.
MaxInvocations == 2

Min(a, b) == IF a < b THEN a ELSE b
Max(a, b) == IF a > b THEN a ELSE b

VARIABLES
  profile,                 \* which copy of the transfer code runs
  imageDataForPrint,       \* the prepared bitmap, or NoImage
  printCharacteristic,     \* "null" or the device whose characteristic is cached
  connectedDevice,         \* "null" or a device
  canWriteWithoutResponse, \* the capability flag
  transferData,            \* <<>> (null) or <<length of the packed buffer>>
  transferIndex,           \* the shared transfer cursor
  printerStatus,           \* 'disconnected' | 'connecting' | 'connected' | 'error'
  linkUp,                  \* device.gatt.connected, per device
  evPending,               \* a gattserverdisconnected event is queued, per device
  attached,                \* the disconnect listener is attached, per device
  proc,                    \* per handler invocation: its position and locals
  ended,                   \* history: the invocation that returned in the
                           \* step just taken, if one did
  downgraded,              \* history: an unacknowledged write has failed on
                           \* the connection established last
  invocations,             \* history: the handler invocations so far
  established,             \* the connection made in the last step, if any
  calc                     \* a single function followed on its own: its
                           \* arguments, position and result so far

vars == <<profile, imageDataForPrint, printCharacteristic, connectedDevice,
          canWriteWithoutResponse, transferData, transferIndex, printerStatus,
          linkUp, evPending, attached, proc, ended, downgraded,
          invocations, established, calc>>

\* ------------------------------------------------------- per-profile constants

\* sendImageData, step(): the chunk size for the current capability flag.
ChunkSize(p, flag) ==
  CASE p = "hook" -> IF flag THEN BLE_CHUNK_SIZE_WITHOUT_RESPONSE
                             ELSE BLE_CHUNK_SIZE_WITH_RESPONSE
    [] p = "app" -> IF flag THEN APP_CHUNK_SIZE_WITHOUT_RESPONSE
                            ELSE APP_CHUNK_SIZE_WITH_RESPONSE
    [] OTHER -> BATCH_SIZE

\* writeChunk: the pacing delay after a write, read from the flag after the write.
NoWriteDelay(p, flag) == 0
AckWriteDelay(p, flag) ==
  CASE p = "hook" -> BLE_WRITE_DELAY_WITH_RESPONSE_MS
    [] p = "app" -> APP_WRITE_DELAY_WITH_RESPONSE_MS
    [] OTHER -> BLE_WRITE_DELAY_MS
WriteDelay(p, flag) ==
  CASE p = "hook" -> IF flag THEN BLE_WRITE_DELAY_WITHOUT_RESPONSE_MS
                             ELSE BLE_WRITE_DELAY_WITH_RESPONSE_MS
    [] p = "app" -> IF flag THEN APP_WRITE_DELAY_WITHOUT_RESPONSE_MS
                            ELSE APP_WRITE_DELAY_WITH_RESPONSE_MS
    [] OTHER -> BLE_WRITE_DELAY_MS

\* sendPrinterData: only the hook writes PRINTER_RESET_COMMAND first.
SendsReset(p) == p = "hook"

\* getImagePrintData: the length of the packed command, 8 + (width/8)*height,
\* and 0 (an empty array) when there is no prepared bitmap.
PackedLength(img) ==
  IF img = NoImage THEN 0 ELSE (img[1] \div 8) * img[2] + HEADER_LENGTH

\* ------------------------------------------------------------ state snapshots

\* A handler's position and locals.  phase, index, end, size are the write
\* issued last (for a bitmap chunk: data.slice(index, end), cut with chunk size
\* `size` from a buffer of length `data`).  The fields from packed on are
\* history: they record what the invocation has done so far and are read by
\* no action.
IdleProc ==
  [pc |-> "idle", op |-> "none", phase |-> "none", mode |-> "none",
   capDev |-> "null", capValid |-> FALSE,
   data |-> 0, index |-> 0, end |-> 0, size |-> 0, remaining |-> 0,
   target |-> "null", retry |-> FALSE,
   packed |-> 0, nChunks |-> 0, uniform |-> TRUE,
   lateUnack |-> FALSE, inFlight |-> 0, sawDisconnect |-> FALSE,
   delayFlag |-> FALSE, delayMs |-> 0]

NoneEnded ==
  [op |-> "none", outcome |-> "none", writeFailed |-> FALSE,
   sawDisconnect |-> FALSE, packed |-> 0, end |-> 0, size |-> 0,
   nChunks |-> 0, uniform |-> TRUE, phase |-> "none", message |-> FALSE, hidden |-> FALSE]

\* The state a step starts from.
\* What a step that completes connectToSelectedDevice connected to: the
\* characteristic's properties.writeWithoutResponse, whether it has a
\* writeValueWithoutResponse function, and the capability flag and its
\* downgrade from before.
NoneEstablished ==
  [device |-> "null", advertises |-> FALSE, provides |-> FALSE,
   previous |-> FALSE, wasDowngraded |-> FALSE]

Cur ==
  [imageDataForPrint |-> imageDataForPrint,
   printCharacteristic |-> printCharacteristic,
   connectedDevice |-> connectedDevice,
   canWriteWithoutResponse |-> canWriteWithoutResponse,
   transferData |-> transferData, transferIndex |-> transferIndex,
   printerStatus |-> printerStatus,
   linkUp |-> linkUp, evPending |-> evPending, attached |-> attached,
   proc |-> proc, ended |-> NoneEnded, downgraded |-> downgraded,
   invocations |-> invocations, established |-> NoneEstablished]

Commit(r) ==
  /\ imageDataForPrint' = r.imageDataForPrint
  /\ printCharacteristic' = r.printCharacteristic
  /\ connectedDevice' = r.connectedDevice
  /\ canWriteWithoutResponse' = r.canWriteWithoutResponse
  /\ transferData' = r.transferData
  /\ transferIndex' = r.transferIndex
  /\ printerStatus' = r.printerStatus
  /\ linkUp' = r.linkUp
  /\ evPending' = r.evPending
  /\ attached' = r.attached
  /\ proc' = r.proc
  /\ ended' = r.ended
  /\ downgraded' = r.downgraded
  /\ invocations' = r.invocations
  /\ established' = r.established
  /\ UNCHANGED <<profile, calc>>

\* ------------------------------------------------- connection housekeeping

\* gatt.disconnect(), or the link dropping: the device is no longer connected,
\* a gattserverdisconnected event is queued, and every write in flight on a
\* characteristic of that device can only reject from now on.
DropLink(r, d) ==
  IF ~r.linkUp[d] THEN r
  ELSE [r EXCEPT !.linkUp[d] = FALSE, !.evPending[d] = TRUE,
                 !.proc = [q \in Procs |->
                             IF r.proc[q].capDev = d
                               THEN [r.proc[q] EXCEPT !.capValid = FALSE]
                               ELSE r.proc[q]]]

\* script: disconnectCurrentPrinter.
disconnectCurrentPrinter(r) ==
  LET d == r.connectedDevice
      r1 == IF d = "null" THEN r
            ELSE DropLink([r EXCEPT !.attached[d] = FALSE], d)
  IN [r1 EXCEPT !.connectedDevice = "null", !.printCharacteristic = "null",
                !.canWriteWithoutResponse = FALSE,
                !.printerStatus = "disconnected"]

\* hook, app: handleDeviceDisconnect.  Every print invocation that has begun
\* its transfer observes the disconnect.
handleDeviceDisconnect(r) ==
  [r EXCEPT !.printCharacteristic = "null", !.connectedDevice = "null",
            !.printerStatus = "disconnected"]

MarkDisconnect(r) ==
  [r EXCEPT !.proc = [q \in Procs |->
                        IF r.proc[q].pc # "idle" /\ r.proc[q].phase # "none"
                          THEN [r.proc[q] EXCEPT !.sawDisconnect = TRUE]
                          ELSE r.proc[q]]]

\* handleError: the hook's (the App component's, part_001 113-118) only shows
\* the message; the script's also drops the connection unless the error is a
\* NotFoundError.
handleError(r, name) ==
  IF profile = "script" /\ name # "NotFoundError"
    THEN disconnectCurrentPrinter(r)
    ELSE r

\* Whether handleError puts the error's message before the user: the
\* component's always does (setErrorMessage opens the dialog), the script's
\* does unless the error is a NotFoundError.
ShowsError(name) == profile # "script" \/ name # "NotFoundError"

\* A handler returns: `ended` says how, in the state it returns to.
EndProc(p, outcome, writeFailed) ==
  [op |-> p.op, outcome |-> outcome, writeFailed |-> writeFailed,
   sawDisconnect |-> p.sawDisconnect, packed |-> p.packed, end |-> p.end,
   size |-> p.size, nChunks |-> p.nChunks, uniform |-> p.uniform,
   phase |-> p.phase, message |-> FALSE, hidden |-> TRUE]

\* The catch block of handlePrint / handleSetupPrinter.
SwallowError(r, s, name, writeFailed) ==
  [r EXCEPT !.proc[s] = IdleProc,
            !.ended = EndProc(r.proc[s], "success", writeFailed)]
Fail(r, s, name, writeFailed) ==
  LET r1 == [r EXCEPT !.printerStatus =
                        IF name = "NotFoundError" THEN "disconnected" ELSE "error"]
      r2 == handleError(r1, name)
  IN [r2 EXCEPT !.proc[s] = IdleProc,
                !.ended = [EndProc(r2.proc[s],
                                   IF name = "NotFoundError" THEN "cancelled"
                                   ELSE "error", writeFailed)
                             EXCEPT !.message = ShowsError(name)]]

\* The success path of handlePrint / handleSetupPrinter.
Finish(r, s) ==
  [r EXCEPT !.proc[s] = IdleProc, !.ended = EndProc(r.proc[s], "success", FALSE)]

\* ------------------------------------------------------- the transfer sequence

\* A write is handed to the characteristic of device dev ("null": the call
\* throws, which the caller sees as a rejected write).
IssueWrite(r, s, kind, mode, dev) ==
  LET p == r.proc[s] IN
  [r EXCEPT !.proc[s] =
     [p EXCEPT !.pc = "write", !.phase = kind, !.mode = mode, !.capDev = dev,
               !.capValid = (dev # "null" /\ r.linkUp[dev]),
               !.inFlight = p.inFlight + 1,
               !.lateUnack = p.lateUnack \/ (mode = "unack" /\ r.downgraded)]]

\* writeChunk up to its first await: throws without a characteristic, else
\* performWrite issues the write the capability flag selects.
writeChunk(r, s, kind) ==
  IF r.printCharacteristic = "null"
    THEN Fail(r, s, "Error", TRUE)
    ELSE IssueWrite(r, s, kind,
                    IF r.canWriteWithoutResponse THEN "unack" ELSE "ack",
                    r.printCharacteristic)

\* sendFeedDots: the dots fed for a request (dots | 0 of an integer is the
\* integer), and the amount of one ESC J command.
DotsToFeed(dots) == Min(1020, Max(0, dots))
FeedAmount(remaining) == Min(255, remaining)

\* sendFeedLines: the count of the ESC d command.
LinesToFeed(lines) == Min(255, Max(0, lines))

\* One feed command, written with characteristic.writeValue.  The hook keeps
\* the characteristic it read when the feed function started (dev); the script
\* reads the global for every command.
FeedWriteByFlag(r, s, kind, dev) ==
  LET d == IF profile = "script" THEN r.printCharacteristic ELSE dev IN
  IssueWrite(r, s, kind, IF r.canWriteWithoutResponse THEN "unack" ELSE "ack",
             d)
FeedWrite(r, s, kind, dev) ==
  LET d == IF profile = "script" THEN r.printCharacteristic ELSE dev IN
  IssueWrite(r, s, kind, "ack", d)

\* sendFeedLines(DEFAULT_FEED_LINES), then the end of sendPrinterData.
sendFeedLines(r, s) ==
  IF r.printCharacteristic = "null" THEN Finish(r, s)
  ELSE LET count == LinesToFeed(DEFAULT_FEED_LINES) IN
       IF count = 0 THEN Finish(r, s)
       ELSE FeedWrite([r EXCEPT !.proc[s].remaining = count], s, "lines",
                      r.printCharacteristic)

\* sendFeedDots(DEFAULT_FEED_DOTS), then sendFeedLines.
sendFeedDots(r, s) ==
  IF r.printCharacteristic = "null" THEN sendFeedLines(r, s)
  ELSE LET remaining == DotsToFeed(DEFAULT_FEED_DOTS) IN
       IF remaining = 0 THEN sendFeedLines(r, s)
       ELSE FeedWrite([r EXCEPT !.proc[s].remaining = remaining], s, "dots",
                      r.printCharacteristic)

\* step() of sendImageData / sendNextImageDataBatch: cut the next chunk from
\* the shared buffer at the shared cursor and hand it to writeChunk.
step(r, s) ==
  LET data == r.transferData
      index == r.transferIndex
  IN IF data = <<>> \/ index >= data[1] THEN sendFeedDots(r, s)
     ELSE LET p == r.proc[s]
              chunkSize == ChunkSize(profile, r.canWriteWithoutResponse)
              end == Min(index + chunkSize, data[1])
              first == p.nChunks = 0
              r1 == [r EXCEPT !.proc[s] =
                       [p EXCEPT !.data = data[1], !.index = index, !.end = end,
                                 !.size = chunkSize,
                                 !.nChunks = p.nChunks + 1,
                                 !.uniform = p.uniform /\
                                             (first \/ chunkSize = p.size)]]
          IN writeChunk(r1, s, "bitmap")

\* sendImageData: pack the bitmap into the shared buffer, skip an empty
\* payload, else reset the shared cursor and start stepping.
sendImageData(r, s) ==
  IF profile = "script" /\ r.imageDataForPrint = NoImage THEN sendFeedDots(r, s)
  ELSE LET len == PackedLength(r.imageDataForPrint)
           r1 == [r EXCEPT !.transferData = <<len>>, !.proc[s].packed = len]
       IN IF len = 0 \/ len <= HEADER_LENGTH THEN sendFeedDots(r1, s)
          ELSE step([r1 EXCEPT !.transferIndex = 0], s)

\* sendPrinterData up to its first pending write.
sendPrinterData(r, s) ==
  IF SendsReset(profile) THEN writeChunk(r, s, "reset") ELSE sendImageData(r, s)

\* What follows a resolved writeChunk: after the reset, the bitmap; after a
\* chunk, the .then of step(): advance the shared cursor, go on or resolve.
\* The hook compares the cursor with the length of the buffer the chunk was
\* cut from, the script with the length of the global buffer.
AfterChunk(r, s) ==
  LET p == r.proc[s] IN
  IF p.phase = "reset" THEN sendImageData(r, s)
  ELSE LET r1 == [r EXCEPT !.transferIndex = p.end]
           length == IF profile = "script" THEN r.transferData[1] ELSE p.data
       IN IF r1.transferIndex < length THEN step(r1, s) ELSE sendFeedDots(r1, s)

\* ------------------------------------------------------------- the connection

\* What follows a resolved ensurePrinterConnection in the two handlers.
Connected(r, s) ==
  LET r1 == [r EXCEPT !.printerStatus = "connected"] IN
  IF r.proc[s].op = "print" THEN sendPrinterData(r1, s) ELSE Finish(r1, s)

\* connectToSelectedDevice up to its pending device.gatt.connect().
ConnectStart(r, s, d, retry) ==
  [r EXCEPT !.printerStatus = "connecting",
            !.proc[s].pc = "connect", !.proc[s].target = d,
            !.proc[s].retry = retry]

\* ensurePrinterConnection up to its first pending await.
ensurePrinterConnection(r, s, forceNewDevice) ==
  LET dev == r.connectedDevice IN
  IF ~forceNewDevice /\ r.printCharacteristic # "null"
       /\ dev # "null" /\ r.linkUp[dev]
    THEN Connected(r, s)
  ELSE IF forceNewDevice \/ dev = "null"
    THEN [r EXCEPT !.proc[s].pc = "request", !.proc[s].retry = FALSE]
  ELSE ConnectStart(r, s, dev, TRUE)

\* connectToSelectedDevice after connect, getPrimaryService and
\* getCharacteristic have resolved: another current device is let go, the new
\* one is stored and the capability flag is read from the characteristic.
KeepDowngrade(r, advertises, provides) ==
  ~r.downgraded /\ advertises /\ provides

\* The capability flag of a new connection.
CapabilityFlag(r, advertises, provides) == advertises /\ provides

connectToSelectedDevice(r, s, advertises, provides) ==
  LET d == r.proc[s].target
      old == r.connectedDevice
      r1 == [r EXCEPT !.linkUp[d] = TRUE]
      r2 == IF old = "null" \/ old = d THEN r1
            ELSE IF profile = "script" THEN disconnectCurrentPrinter(r1)
            ELSE DropLink([r1 EXCEPT !.attached[old] = FALSE], old)
      r3 == [r2 EXCEPT !.connectedDevice = d, !.attached[d] = TRUE,
                       !.printCharacteristic = d,
                       !.canWriteWithoutResponse =
                          CapabilityFlag(r, advertises, provides),
                       !.downgraded = FALSE,
                       !.established =
                          [device |-> d, advertises |-> advertises,
                           provides |-> provides,
                           previous |-> r.canWriteWithoutResponse,
                           wasDowngraded |-> r.downgraded],
                       !.printerStatus = "connected",
                       !.proc[s].target = "null", !.proc[s].retry = FALSE]
  IN Connected(r3, s)

\* ------------------------------------------------------------------- actions

\* The refs and state of the printer hook, untouched while a single function
\* is followed on its own.
refs ==
  <<profile, imageDataForPrint, printCharacteristic, connectedDevice,
    canWriteWithoutResponse, transferData, transferIndex, printerStatus,
    linkUp, evPending, attached, proc, ended, downgraded, invocations,
    established>>

\* No function is followed on its own.
NoCalc == [fn |-> "none"]

\* The state after construction: nothing connected, nothing prepared.
Fresh ==
  /\ profile \in Profiles
  /\ imageDataForPrint = NoImage
  /\ printCharacteristic = "null"
  /\ connectedDevice = "null"
  /\ canWriteWithoutResponse = FALSE
  /\ transferData = <<>>
  /\ transferIndex = 0
  /\ printerStatus = "disconnected"
  /\ linkUp = [d \in Devices |-> FALSE]
  /\ evPending = [d \in Devices |-> FALSE]
  /\ attached = [d \in Devices |-> FALSE]
  /\ proc = [q \in Procs |-> IdleProc]
  /\ ended = NoneEnded
  /\ downgraded = FALSE
  /\ invocations = 0
  /\ established = NoneEstablished

Init == Fresh /\ calc = NoCalc

\* preparePrintData stores a new prepared bitmap (or null for an empty canvas).
LoadImage ==
  /\ \E img \in Images \cup {NoImage} :
       /\ img # imageDataForPrint
       /\ PackedLength(img) <= MaxChunks * ChunkSize(profile, FALSE)
       /\ imageDataForPrint' = img
  /\ ended' = NoneEnded
  /\ established' = NoneEstablished
  /\ UNCHANGED <<profile, printCharacteristic, connectedDevice,
                 canWriteWithoutResponse, transferData, transferIndex,
                 printerStatus, linkUp, evPending, attached, proc,
                 downgraded, invocations, calc>>

\* An invocation is recorded in the first free slot.
FreeSlot(s) ==
  /\ invocations < MaxInvocations
  /\ proc[s].pc = "idle"
  /\ s = "p1" \/ proc["p1"].pc # "idle"

\* handlePrint (the script's print button listener), to its first pending await.
handlePrint(s) ==
  /\ FreeSlot(s)
  /\ imageDataForPrint # NoImage
  /\ LET dev == connectedDevice
         needsConnection ==
           \/ dev = "null"
           \/ ~linkUp[dev]
           \/ (profile # "script" /\ printCharacteristic = "null")
         r0 == [Cur EXCEPT !.proc[s] = [IdleProc EXCEPT !.op = "print"],
                           !.invocations = invocations + 1,
                           !.printerStatus = IF needsConnection THEN "connecting"
                                             ELSE printerStatus]
     IN Commit(ensurePrinterConnection(r0, s, FALSE))

\* handleSetupPrinter (the script's setup button listener).
handleSetupPrinter(s) ==
  /\ FreeSlot(s)
  /\ LET r0 == [Cur EXCEPT !.proc[s] = [IdleProc EXCEPT !.op = "setup"],
                           !.invocations = invocations + 1,
                           !.printerStatus = "connecting"]
     IN Commit(ensurePrinterConnection(r0, s, TRUE))

\* navigator.bluetooth.requestDevice resolves with the device the user chose.
RequestDeviceResolves(s) ==
  /\ proc[s].pc = "request"
  /\ \E d \in Devices : Commit(ConnectStart(Cur, s, d, FALSE))

\* requestDevice rejects: the user closed the chooser (NotFoundError).
RequestDeviceRejects(s) ==
  /\ proc[s].pc = "request"
  /\ Commit(Fail(Cur, s, "NotFoundError", FALSE))

\* gatt.connect, getPrimaryService and getCharacteristic have resolved.  A
\* device that has just disconnected delivers its event before it reconnects.
ConnectResolves(s) ==
  /\ proc[s].pc = "connect"
  /\ ~evPending[proc[s].target]
  /\ \E advertises \in BOOLEAN, provides \in BOOLEAN :
       Commit(connectToSelectedDevice(Cur, s, advertises, provides))

\* One of them rejects.  ensurePrinterConnection swallows the error of the
\* reconnect attempt and asks for a device; otherwise the handler's catch runs.
ConnectRejects(s) ==
  /\ proc[s].pc = "connect"
  /\ IF proc[s].retry
       THEN /\ Commit([Cur EXCEPT !.proc[s].pc = "request",
                                  !.proc[s].target = "null",
                                  !.proc[s].retry = FALSE])
       ELSE \E name \in {"NotFoundError", "NetworkError"} :
              Commit(Fail(Cur, s, name, FALSE))

\* The write in flight resolves (only on a characteristic of a live link).
\* After writeChunk's write comes the pacing delay; after a feed command the
\* next command, or the next function of sendPrinterData.
WriteResolves(s) ==
  /\ proc[s].pc = "write"
  /\ proc[s].capValid
  /\ LET p == proc[s]
         r0 == [Cur EXCEPT !.proc[s].inFlight = p.inFlight - 1]
     IN CASE p.phase \in {"reset", "bitmap"} ->
               LET delayMs == WriteDelay(profile, canWriteWithoutResponse) IN
               IF delayMs > 0
                 THEN Commit([r0 EXCEPT !.proc[s].pc = "delay",
                                        !.proc[s].delayFlag =
                                           canWriteWithoutResponse,
                                        !.proc[s].delayMs = delayMs])
                 ELSE Commit(AfterChunk(r0, s))
          [] p.phase = "dots" ->
               LET remaining == p.remaining - FeedAmount(p.remaining)
                   r1 == [r0 EXCEPT !.proc[s].remaining = remaining]
               IN IF remaining > 0
                    THEN Commit(FeedWrite(r1, s, "dots", p.capDev))
                    ELSE Commit(sendFeedLines(r1, s))
          [] OTHER -> Commit(Finish(r0, s))

\* performWrite's catch: an unacknowledged write that threw or rejected clears
\* the capability flag and the same bytes go out with writeValue, on the same
\* characteristic in the hook, on the global one in the script.
FallbackKeepsFlag(r) == r.canWriteWithoutResponse
FallbackClearsFlag(r) == FALSE

NoFallback(r, s) == Fail(r, s, "Error", TRUE)
Fallback(r, s) ==
  LET p == r.proc[s]
      dev == IF profile = "script" THEN r.printCharacteristic ELSE p.capDev
      r1 == [r EXCEPT !.canWriteWithoutResponse = FallbackClearsFlag(r),
                      !.downgraded = TRUE]
  IN [r1 EXCEPT !.proc[s] =
        [p EXCEPT !.mode = "ack", !.capDev = dev,
                  !.capValid = IF profile = "script"
                                 THEN dev # "null" /\ r.linkUp[dev]
                                 ELSE p.capValid,
                  !.inFlight = p.inFlight + 1]]

\* The write in flight rejects (or the call throws).  An unacknowledged write
\* of writeChunk falls back; any other rejection ends the invocation in the
\* handler's catch.
WriteRejects(s) ==
  /\ proc[s].pc = "write"
  /\ LET p == proc[s]
         r0 == [Cur EXCEPT !.proc[s].inFlight = p.inFlight - 1]
     IN IF p.mode = "unack"
          THEN Commit(Fallback(r0, s))
          ELSE Commit(Fail(r0, s, "Error", TRUE))

DelayNeverElapses(s) == proc[s].pc = "delay" /\ FALSE /\ UNCHANGED vars

\* The timer of delay(delayMs) fires and writeChunk resolves.
DelayElapses(s) ==
  /\ proc[s].pc = "delay"
  /\ Commit(AfterChunk([Cur EXCEPT !.proc[s].delayFlag = FALSE,
                                   !.proc[s].delayMs = 0], s))

\* The link to a connected peripheral drops.
LinkDrops(d) ==
  /\ linkUp[d]
  /\ Commit(DropLink(Cur, d))

\* The queued gattserverdisconnected event is dispatched to the listener, if
\* one is attached.
DisconnectEvent(d) ==
  /\ evPending[d]
  /\ LET r0 == [Cur EXCEPT !.evPending[d] = FALSE] IN
     IF ~attached[d] THEN Commit(r0)
     ELSE IF profile = "script"
       THEN IF connectedDevice = d
              THEN Commit(MarkDisconnect(disconnectCurrentPrinter(r0)))
              ELSE Commit(r0)
     ELSE Commit(MarkDisconnect(handleDeviceDisconnect(r0)))

Next ==
  \/ LoadImage
  \/ \E s \in Procs : handlePrint(s)
  \/ \E s \in Procs : handleSetupPrinter(s)
  \/ \E s \in Procs : RequestDeviceResolves(s)
  \/ \E s \in Procs : RequestDeviceRejects(s)
  \/ \E s \in Procs : ConnectResolves(s)
  \/ \E s \in Procs : ConnectRejects(s)
  \/ \E s \in Procs : WriteResolves(s)
  \/ \E s \in Procs : WriteRejects(s)
  \/ \E s \in Procs : DelayElapses(s)
  \/ \E d \in Devices : LinkDrops(d)
  \/ \E d \in Devices : DisconnectEvent(d)

Spec == Init /\ [][Next]_vars

\* The scheduling the transfer relies on: a write handed to the characteristic
\* is eventually answered (it resolves or rejects) and the timer of a pacing
\* delay eventually fires.  Nothing is assumed of the chooser, the connection
\* attempts or the user.
WritesComplete ==
  \A s \in Procs : /\ WF_vars(WriteResolves(s) \/ WriteRejects(s))
                   /\ WF_vars(DelayElapses(s))

\* The handlers invoked one at a time: a button is pressed again only after
\* the invocation before it has returned.
NextLive ==
  /\ Next
  /\ \A s \in Procs \ {"p1"} : proc'[s].pc = "idle"

SpecLive == Init /\ [][NextLive]_vars /\ WritesComplete

TypeOK ==
  /\ profile \in Profiles
  /\ printCharacteristic \in Devices \cup {"null"}
  /\ connectedDevice \in Devices \cup {"null"}
  /\ canWriteWithoutResponse \in BOOLEAN
  /\ transferIndex \in Nat
  /\ printerStatus \in {"disconnected", "connecting", "connected", "error"}
  /\ \A q \in Procs : proc[q].pc \in {"idle", "request", "connect", "write", "delay"}

\* ------------------------------------------------- the feed functions alone

\* sendFeedDots(n) / sendFeedLines(n) called with any count n, with or without
\* a cached characteristic.  emitted is the third byte of every command handed
\* to characteristic.writeValue so far.
MaxFeedArg == 1030
FeedArgs == (0 - 2) .. MaxFeedArg

FeedCalls ==
  [fn : {"sendFeedDots", "sendFeedLines"}, arg : FeedArgs,
   characteristic : BOOLEAN, pc : {"call"}, remaining : {0}, emitted : {<<>>}]

InitFeed == Fresh /\ calc \in FeedCalls

\* The function runs to its first await: no characteristic or a count of 0
\* returns at once, otherwise the first command is written.
FeedCall ==
  /\ calc.fn \in {"sendFeedDots", "sendFeedLines"}
  /\ calc.pc = "call"
  /\ LET count == IF calc.fn = "sendFeedDots" THEN DotsToFeed(calc.arg)
                  ELSE LinesToFeed(calc.arg)
         amount == IF calc.fn = "sendFeedDots" THEN FeedAmount(count) ELSE count
     IN calc' = IF ~calc.characteristic \/ count = 0
                  THEN [calc EXCEPT !.pc = "done"]
                  ELSE [calc EXCEPT !.pc = "await", !.remaining = count,
                                    !.emitted = <<amount>>]

\* The pending writeValue resolves: sendFeedDots subtracts the amount and
\* writes the next command while dots remain; sendFeedLines returns.
FeedWritten ==
  /\ calc.fn \in {"sendFeedDots", "sendFeedLines"}
  /\ calc.pc = "await"
  /\ LET remaining == calc.remaining - FeedAmount(calc.remaining) IN
     calc' = IF calc.fn = "sendFeedDots" /\ remaining > 0
               THEN [calc EXCEPT !.remaining = remaining,
                                 !.emitted = Append(@, FeedAmount(remaining))]
               ELSE [calc EXCEPT !.pc = "done", !.remaining = 0]

\* The pending writeValue rejects: the function throws.
FeedRejected ==
  /\ calc.fn \in {"sendFeedDots", "sendFeedLines"}
  /\ calc.pc = "await"
  /\ calc' = [calc EXCEPT !.pc = "failed"]

NextFeed ==
  /\ FeedCall \/ FeedWritten \/ FeedRejected
  /\ UNCHANGED refs

SpecFeed == InitFeed /\ [][NextFeed]_vars

\* ------------------------------------------------ getImagePrintData alone
\* calc holds the bitmap the function is applied to (imageDataForPrintRef.current
\* at the time of the call) and the function's locals.

DITHER_THRESHOLD == 112
WIDTH_TO_PIXELS == ("58" :> 384) @@ ("80" :> 576)

\* A pixel is <<red, green, blue, alpha>>.  The bitmaps followed are filled
\* with one of a few patterns.
\* "dithered" is a bitmap as applyFloydSteinbergDither leaves one (opaque,
\* every channel 0 or 255); "edge" has pixels on either side of the threshold,
\* a faint dark pixel and a coloured one.
Patterns == {"black", "white", "clear", "mixed", "dithered", "edge"}

Pixel(pattern, x, y) ==
  CASE pattern = "black" -> <<0, 0, 0, 255>>
    [] pattern = "white" -> <<255, 255, 255, 255>>
    [] pattern = "clear" -> <<0, 0, 0, 0>>
    [] pattern = "dithered" ->
         IF (x + y) % 2 = 0 \/ x % 5 = 0 THEN <<0, 0, 0, 255>>
         ELSE <<255, 255, 255, 255>>
    [] pattern = "edge" ->
         CASE (x + y) % 5 = 0 -> <<111, 111, 111, 255>>
           [] (x + y) % 5 = 1 -> <<112, 112, 112, 255>>
           [] (x + y) % 5 = 2 -> <<0, 0, 0, 1>>
           [] (x + y) % 5 = 3 -> <<255, 0, 0, 255>>
           [] OTHER -> <<0, 255, 0, 0>>
    [] OTHER -> CASE (x + 2 * y) % 3 = 0 -> <<0, 0, 0, 255>>
                  [] (x + 2 * y) % 3 = 1 -> <<255, 255, 255, 255>>
                  [] OTHER -> <<40, 40, 40, 0>>

\* 0.299 * red + 0.587 * green + 0.114 * blue < threshold, in thousandths.
Darker(px, threshold) ==
  299 * px[1] + 587 * px[2] + 114 * px[3] < 1000 * threshold

\* The luminance test without the test of alpha.
DarkAnyAlpha(pattern, x, y) ==
  Darker(Pixel(pattern, x, y), DITHER_THRESHOLD)

\* Whether the bit of pixel (x, y) is set in its byte.
BitSet(pattern, x, y) ==
  LET px == Pixel(pattern, x, y)
  IN px[4] # 0 /\ Darker(px, DITHER_THRESHOLD)

RECURSIVE PackBits(_, _, _, _)
PackBits(pattern, xByte, y, bit) ==
  IF bit = 8 THEN 0
  ELSE (IF BitSet(pattern, xByte * 8 + bit, y) THEN 2 ^ (7 - bit) ELSE 0)
       + PackBits(pattern, xByte, y, bit + 1)

\* A value stored in a Uint8Array element.
ToUint8(v) == v % 256

BytesPerRow(width) == width \div 8

SkipOffset(offset) == offset + 2

\* ++offset
NextOffset(offset) == offset + 1

\* height % 256 and Math.floor(height / 256), as stored in the header.
HeightLow(height) == ToUint8(height % 256)
HeightHigh(height) == ToUint8(height \div 256)

\* The first eight bytes of the buffer.
PackHeader(width, height) ==
  <<29, 118, 48, 0, ToUint8(BytesPerRow(width)), 0,
    HeightLow(height), HeightHigh(height)>>

\* The bitmaps packed byte by byte.
MaxPackRowBytes == 3
MaxPackHeight == 3
PackCalls ==
  [fn : {"getImagePrintData"}, image : BOOLEAN,
   width : {8 * n : n \in 1 .. MaxPackRowBytes}, height : 1 .. MaxPackHeight,
   pattern : Patterns, pc : {"call"}, length : {0}, header : {<<>>},
   offset : {0}, y : {0}, xByte : {0}, writes : {<<>>}]

\* The bitmaps whose header alone is followed: the narrowest and the two
\* printer widths, of every height up to MaxHeaderHeight.
MaxHeaderHeight == 65540
HeaderCalls ==
  [fn : {"getImagePrintData"}, image : {TRUE},
   width : {8} \cup {WIDTH_TO_PIXELS[mm] : mm \in DOMAIN WIDTH_TO_PIXELS},
   height : 1 .. MaxHeaderHeight,
   pattern : {"black"}, pc : {"call"}, length : {0}, header : {<<>>},
   offset : {0}, y : {0}, xByte : {0}, writes : {<<>>}]

InitPack == Fresh /\ calc \in PackCalls
InitHeader == Fresh /\ calc \in HeaderCalls

\* getImagePrintData up to its loops: without a bitmap an empty array is
\* returned; otherwise the buffer is allocated and its header written.
PackCall ==
  /\ calc.fn = "getImagePrintData"
  /\ calc.pc = "call"
  /\ calc' = IF ~calc.image THEN [calc EXCEPT !.pc = "done"]
             ELSE [calc EXCEPT
                     !.pc = "loop",
                     !.length = BytesPerRow(calc.width) * calc.height + 8,
                     !.header = PackHeader(calc.width, calc.height),
                     !.offset = 7]

\* One pass of the loop over xByte: the byte of eight pixels is stored at
\* ++offset (a store past the end of a typed array is dropped).
PackByte ==
  /\ calc.fn = "getImagePrintData"
  /\ calc.pc = "loop"
  /\ calc.y < calc.height
  /\ calc.xByte < BytesPerRow(calc.width)
  /\ LET offset == NextOffset(calc.offset)
         byte == PackBits(calc.pattern, calc.xByte, calc.y, 0)
         last == calc.xByte + 1 >= BytesPerRow(calc.width)
     IN calc' = [calc EXCEPT
                   !.offset = offset,
                   !.writes = IF offset < calc.length
                                THEN Append(@, [index |-> offset, y |-> calc.y,
                                                xByte |-> calc.xByte,
                                                byte |-> ToUint8(byte)])
                                ELSE @,
                   !.xByte = IF last THEN 0 ELSE @ + 1,
                   !.y = IF last THEN @ + 1 ELSE @]

\* The loop over y is over: the buffer is returned.
PackReturn ==
  /\ calc.fn = "getImagePrintData"
  /\ calc.pc = "loop"
  /\ calc.y >= calc.height
  /\ calc' = [calc EXCEPT !.pc = "done"]

NextPack ==
  /\ PackCall \/ PackByte \/ PackReturn
  /\ UNCHANGED refs

SpecPack == InitPack /\ [][NextPack]_vars

NextHeader == PackCall /\ UNCHANGED refs

SpecHeader == InitHeader /\ [][NextHeader]_vars

\* ---------------------------------------- applyFloydSteinbergDither alone
\* calc holds the ImageData the function is applied to and the function's
\* locals.  data[idx + 1] is the pixel of index idx; gray levels and errors
\* are kept in thousandths.

Palette == <<(<<0, 0, 0, 255>>), (<<120, 120, 120, 128>>), (<<255, 255, 255, 0>>)>>

\* The bitmaps dithered: every size up to the bounds, filled from the palette
\* along one of a few diagonals.
MaxDitherWidth == 9
MaxDitherHeight == 3
Fillings == [a : 0 .. 2, b : 0 .. 2, c : 0 .. 2]

FilledData(width, height, f) ==
  [i \in 1 .. width * height |->
     Palette[((((i - 1) % width) * f.a + ((i - 1) \div width) * f.b + f.c) % 3) + 1]]

DitherCalls ==
  {[fn |-> "applyFloydSteinbergDither", width |-> w, height |-> h,
    data |-> FilledData(w, h, f), errorBuffer |-> <<>>, pc |-> "call",
    x |-> 0, y |-> 0, touched |-> {}] :
     w \in 1 .. MaxDitherWidth, h \in 1 .. MaxDitherHeight, f \in Fillings}

InitDither == Fresh /\ calc \in DitherCalls

\* 0.299 * red + 0.587 * green + 0.114 * blue, in thousandths.
BaseGray(px) == 299 * px[1] + 587 * px[2] + 114 * px[3]

AlwaysRight(x, width) == TRUE

\* x + 1 < width
HasRight(x, width) == x + 1 < width

\* errorBuffer[i] += v (a store past the end of a typed array is dropped).
AddError(buffer, i, v) ==
  IF i >= 0 /\ i < Len(buffer) THEN [buffer EXCEPT ![i + 1] = @ + v]
  ELSE buffer

\* The destructuring and the allocation of errorBuffer.
DitherCall ==
  /\ calc.fn = "applyFloydSteinbergDither"
  /\ calc.pc = "call"
  /\ calc' = [calc EXCEPT
                !.pc = "loop",
                !.errorBuffer = [i \in 1 .. calc.width * calc.height |-> 0]]

\* One pass of the loop over x: the pixel is set to black or white and its
\* error handed to the pixels to the right and below.
DitherPixel ==
  /\ calc.fn = "applyFloydSteinbergDither"
  /\ calc.pc = "loop"
  /\ calc.y < calc.height
  /\ calc.x < calc.width
  /\ LET width == calc.width
         x == calc.x
         y == calc.y
         idx == y * width + x
         adjustedGray == BaseGray(calc.data[idx + 1]) + calc.errorBuffer[idx + 1]
         output == IF adjustedGray >= 1000 * DITHER_THRESHOLD THEN 255 ELSE 0
         error == adjustedGray - 1000 * output
         toRight == HasRight(x, width)
         toBelow == y + 1 < calc.height
         b1 == IF toRight
                 THEN AddError(calc.errorBuffer, idx + 1, (error * 7) \div 16)
                 ELSE calc.errorBuffer
         b2 == IF toBelow /\ x > 0
                 THEN AddError(b1, idx + width - 1, (error * 3) \div 16)
                 ELSE b1
         b3 == IF toBelow
                 THEN AddError(b2, idx + width, (error * 5) \div 16)
                 ELSE b2
         b4 == IF toBelow /\ toRight
                 THEN AddError(b3, idx + width + 1, (error * 1) \div 16)
                 ELSE b3
         stores == (IF toRight THEN {idx + 1} ELSE {})
                   \cup (IF toBelow /\ x > 0 THEN {idx + width - 1} ELSE {})
                   \cup (IF toBelow THEN {idx + width} ELSE {})
                   \cup (IF toBelow /\ toRight THEN {idx + width + 1} ELSE {})
         last == x + 1 >= width
     IN calc' = [calc EXCEPT
                   !.data[idx + 1] = <<output, output, output, 255>>,
                   !.errorBuffer = b4,
                   !.touched = stores,
                   !.x = IF last THEN 0 ELSE x + 1,
                   !.y = IF last THEN y + 1 ELSE y]

\* The loop over y is over.
DitherReturn ==
  /\ calc.fn = "applyFloydSteinbergDither"
  /\ calc.pc = "loop"
  /\ calc.y >= calc.height
  /\ calc' = [calc EXCEPT !.pc = "done", !.touched = {}]

NextDither ==
  /\ DitherCall \/ DitherPixel \/ DitherReturn
  /\ UNCHANGED refs

SpecDither == InitDither /\ [][NextDither]_vars

\* ------------------------------------------------- trimImageMargins alone
\* calc holds the ImageData the function is applied to and the function's
\* locals.  A buffer is [id, width, height]: the id tells the objects apart.

WHITE_THRESHOLD == 250

\* Math.round(n / d) for n >= 0, d > 0: the nearest integer, halves upwards.
Round(n, d) == (2 * n + d) \div (2 * d)

PremultipliedOnly(px) ==
  <<Round(px[1] * px[4], 255), Round(px[2] * px[4], 255),
    Round(px[3] * px[4], 255), px[4]>>

\* A pixel as getImageData reads it back after putImageData: the canvas keeps
\* colours multiplied by alpha / 255, rounded.
CanvasStored(px) ==
  IF px[4] = 0 THEN <<0, 0, 0, 0>>
  ELSE <<Round(Round(px[1] * px[4], 255) * 255, px[4]),
         Round(Round(px[2] * px[4], 255) * 255, px[4]),
         Round(Round(px[3] * px[4], 255) * 255, px[4]), px[4]>>

\* The pixels the bitmaps are made of, as preparePrintData reads them from
\* its canvas: a background that counts as white (opaque white, opaque
\* near-white, almost transparent black) and a content that does not (opaque
\* black, translucent gray, opaque red).
TrimFillings ==
  {[white |-> <<255, 255, 255, 255>>, content |-> <<0, 0, 0, 255>>],
   [white |-> <<251, 251, 251, 255>>, content |-> <<128, 128, 128, 128>>],
   [white |-> <<0, 0, 0, 10>>, content |-> <<200, 30, 30, 255>>]}

\* The bitmaps trimmed: every size up to the bounds, blank or with content in
\* a box x0..x1 by y0..y1, filled or only at two opposite corners.
MaxTrimWidth == 17
MaxTrimHeight == 2

TrimCalls ==
  {[fn |-> "trimImageMargins", image |-> i, width |-> w, height |-> h,
    shape |-> s, x0 |-> b[1], x1 |-> b[2], y0 |-> b[3], y1 |-> b[4],
    filling |-> f, pc |-> "call", top |-> 0, bottom |-> 0, left |-> 0,
    right |-> 0, result |-> [id |-> "none", width |-> 0, height |-> 0],
    pass |-> 1, originX |-> 0, originY |-> 0,
    first |-> [id |-> "none", width |-> 0, height |-> 0]] :
     i \in {TRUE}, w \in 1 .. MaxTrimWidth, h \in 1 .. MaxTrimHeight,
     s \in {"box", "corners"}, f \in TrimFillings,
     b \in {c \in (0 .. MaxTrimWidth - 1) \X (0 .. MaxTrimWidth - 1)
                  \X (0 .. MaxTrimHeight - 1) \X (0 .. MaxTrimHeight - 1) :
              c[1] <= c[2] /\ c[3] <= c[4]}}

TrimInputs ==
  {c \in TrimCalls : c.x1 < c.width /\ c.y1 < c.height}
  \cup {[c EXCEPT !.shape = "blank"] :
          c \in {d \in TrimCalls : d.shape = "box" /\ d.x0 = 0 /\ d.x1 = 0
                                    /\ d.y0 = 0 /\ d.y1 = 0}}
  \cup {[c EXCEPT !.image = FALSE] :
          c \in {d \in TrimCalls : d.shape = "box" /\ d.x0 = 0 /\ d.x1 = 0
                                    /\ d.y0 = 0 /\ d.y1 = 0
                                    /\ d.width = 1 /\ d.height = 1}}

InitTrim == Fresh /\ profile = "app" /\ calc \in TrimInputs

\* The pixel at (x, y) of the bitmap first passed in.
SourcePixel(c, x, y) ==
  IF \/ c.shape = "box" /\ x >= c.x0 /\ x <= c.x1 /\ y >= c.y0 /\ y <= c.y1
     \/ c.shape = "corners" /\ ((x = c.x0 /\ y = c.y0) \/ (x = c.x1 /\ y = c.y1))
    THEN c.filling.content
    ELSE c.filling.white

\* data at pixel (x, y) of the buffer the function is applied to: the bitmap
\* first passed in or, on the second pass, the buffer the first pass read
\* back from its canvas, whose corner is at (originX, originY) of the first.
TrimPixel(c, x, y) ==
  IF c.pass = 1 THEN SourcePixel(c, x, y)
  ELSE CanvasStored(SourcePixel(c, x + c.originX, y + c.originY))

\* The pixel at (x, y) of the buffer returned: the source's own when the
\* source is returned, otherwise what the canvas gives back of the pixel at
\* (x + left, y + top).
ResultPixel(c, x, y) ==
  IF c.result.id = "source" THEN TrimPixel(c, x, y)
  ELSE CanvasStored(TrimPixel(c, x + c.left, y + c.top))

\* alpha <= 10, or luminance >= WHITE_THRESHOLD
pixelIsWhite(c, x, y) ==
  LET px == TrimPixel(c, x, y)
  IN px[4] <= 10 \/ ~Darker(px, WHITE_THRESHOLD)

rowIsWhite(c, y) == \A x \in 0 .. c.width - 1 : pixelIsWhite(c, x, y)

columnStartIsWhite(c, x, startY, endY) == pixelIsWhite(c, x, startY)

columnIsWhite(c, x, startY, endY) ==
  startY > endY \/ \A y \in startY .. endY : pixelIsWhite(c, x, y)

NeverCollapsed(top, bottom, left, right) == FALSE

\* top > bottom || left > right
Collapsed(top, bottom, left, right) == top > bottom \/ left > right

UnalignedSpan(width, left, right) == [left |-> left, right |-> right]

\* The columns kept: left..right widened, and if the edges stop that, moved,
\* towards a width that is a multiple of 8.
AlignedSpan(width, left, right) ==
  LET remainder == (right - left + 1) % 8
      extra == 8 - remainder
      extraLeft == extra \div 2
      extraRight == extra - extraLeft
      left1 == Max(0, left - extraLeft)
      right1 == Min(width - 1, right + extraRight)
      targetWidth == Min(width, ((right1 - left1 + 1 + 7) \div 8) * 8)
      right2 == Min(width - 1, left1 + targetWidth - 1)
      left2 == Max(0, right2 - targetWidth + 1)
  IN IF remainder = 0 THEN [left |-> left, right |-> right]
     ELSE IF (right1 - left1 + 1) % 8 = 0 THEN [left |-> left1, right |-> right1]
     ELSE IF (right2 - left1 + 1) % 8 = 0 THEN [left |-> left1, right |-> right2]
     ELSE [left |-> left2, right |-> right2]

\* The null check and the initial bounds.
TrimCall ==
  /\ calc.fn = "trimImageMargins"
  /\ calc.pc = "call"
  /\ calc' = IF ~calc.image
               THEN [calc EXCEPT !.pc = "done", !.result.id = "null"]
               ELSE [calc EXCEPT !.pc = "top", !.top = 0,
                                 !.bottom = calc.height - 1, !.left = 0,
                                 !.right = calc.width - 1]

\* One test of the condition of the while loop at hand, and its body if the
\* test passes.
TrimScan ==
  /\ calc.fn = "trimImageMargins"
  /\ calc.pc \in {"top", "bottom", "left", "right"}
  /\ calc' =
       CASE calc.pc = "top" ->
              IF calc.top < calc.height /\ rowIsWhite(calc, calc.top)
                THEN [calc EXCEPT !.top = @ + 1]
                ELSE [calc EXCEPT !.pc = "bottom"]
         [] calc.pc = "bottom" ->
              IF calc.bottom >= calc.top /\ rowIsWhite(calc, calc.bottom)
                THEN [calc EXCEPT !.bottom = @ - 1]
                ELSE [calc EXCEPT !.pc = "left"]
         [] calc.pc = "left" ->
              IF /\ calc.left < calc.width
                 /\ columnIsWhite(calc, calc.left, calc.top, calc.bottom)
                THEN [calc EXCEPT !.left = @ + 1]
                ELSE [calc EXCEPT !.pc = "right"]
         [] OTHER ->
              IF /\ calc.right >= calc.left
                 /\ columnIsWhite(calc, calc.right, calc.top, calc.bottom)
                THEN [calc EXCEPT !.right = @ - 1]
                ELSE [calc EXCEPT !.pc = "align"]

\* After the scans: a blank bitmap is returned as it is; otherwise the span is
\* aligned and the rectangle is copied into a new buffer.
TrimReturn ==
  /\ calc.fn = "trimImageMargins"
  /\ calc.pc = "align"
  /\ calc' =
       IF Collapsed(calc.top, calc.bottom, calc.left, calc.right)
         THEN [calc EXCEPT !.pc = "done",
                           !.result = [id |-> "source", width |-> calc.width,
                                       height |-> calc.height]]
         ELSE LET span == AlignedSpan(calc.width, calc.left, calc.right)
              IN [calc EXCEPT !.pc = "done", !.left = span.left,
                                !.right = span.right,
                                !.result = [id |-> "trimmed",
                                            width |-> span.right - span.left + 1,
                                            height |-> calc.bottom - calc.top + 1]]

\* trimImageMargins applied to the buffer it has just returned.
TrimAgain ==
  /\ calc.fn = "trimImageMargins"
  /\ calc.pc = "done" /\ calc.pass = 1 /\ calc.image
  /\ calc' = [calc EXCEPT
                !.pc = "call", !.pass = 2, !.first = calc.result,
                !.width = calc.result.width, !.height = calc.result.height,
                !.originX = IF calc.result.id = "source" THEN 0 ELSE calc.left,
                !.originY = IF calc.result.id = "source" THEN 0 ELSE calc.top]

NextTrim ==
  /\ TrimCall \/ TrimScan \/ TrimReturn \/ TrimAgain
  /\ UNCHANGED refs

SpecTrim == InitTrim /\ [][NextTrim]_vars

\* ------------------------------------------- scaleImageDataToWidth alone
\* calc holds the ImageData and the target width the function is applied to
\* and the function's locals.  scale = targetWidth / imageData.width is kept
\* as that fraction.

UnclampedHeight(height, width, targetWidth) ==
  Round(height * targetWidth, width)

\* Math.max(8, Math.round(imageData.height * scale))
ScaledHeight(height, width, targetWidth) ==
  Max(8, Round(height * targetWidth, width))

\* Math.min(targetWidth, Math.round(imageData.width * scale))
ScaledWidth(width, targetWidth) ==
  Min(targetWidth, Round(width * targetWidth, width))

MaxScaleWidth == 25
MaxScaleHeight == 20
MaxTargetBytes == 3

ScaleCalls ==
  [fn : {"scaleImageDataToWidth"}, image : BOOLEAN,
   width : 1 .. MaxScaleWidth, height : 1 .. MaxScaleHeight,
   targetWidth : {8 * n : n \in 1 .. MaxTargetBytes}, pc : {"call"},
   scaledWidth : {0}, scaledHeight : {0}, offsetX : {0},
   result : {[id |-> "none", width |-> 0, height |-> 0]}]

InitScale == Fresh /\ profile = "app" /\ calc \in ScaleCalls

\* No buffer gives null, a buffer of the target width is returned itself;
\* otherwise the scaled size is computed.
ScaleCall ==
  /\ calc.fn = "scaleImageDataToWidth"
  /\ calc.pc = "call"
  /\ calc' =
       IF ~calc.image
         THEN [calc EXCEPT !.pc = "done", !.result.id = "null"]
       ELSE IF calc.width = calc.targetWidth
         THEN [calc EXCEPT !.pc = "done",
                           !.result = [id |-> "source", width |-> calc.width,
                                       height |-> calc.height]]
       ELSE [calc EXCEPT
               !.pc = "draw",
               !.scaledWidth = ScaledWidth(calc.width, calc.targetWidth),
               !.scaledHeight =
                  ScaledHeight(calc.height, calc.width, calc.targetWidth)]

\* The bitmap is drawn, centred, on a white canvas of the target width and
\* the scaled height, and the whole canvas is read back.
ScaleDraw ==
  /\ calc.fn = "scaleImageDataToWidth"
  /\ calc.pc = "draw"
  /\ LET scaledCanvas == [width |-> calc.targetWidth,
                          height |-> calc.scaledHeight]
     IN calc' = [calc EXCEPT
                   !.pc = "done",
                   !.offsetX = (calc.targetWidth - calc.scaledWidth) \div 2,
                   !.result = [id |-> "scaled", width |-> scaledCanvas.width,
                               height |-> scaledCanvas.height]]

NextScale ==
  /\ ScaleCall \/ ScaleDraw
  /\ UNCHANGED refs

SpecScale == InitScale /\ [][NextScale]_vars

\* ------------------------------------------------- preparePrintData alone
\* calc holds the source canvas' size, maxPrintWidthRef.current, whether the
\* print data canvas and its context exist, and the size of preparedImageData
\* as it goes through trimImageMargins, scaleImageDataToWidth and the dither.
\* What the source canvas shows is followed as the box of the pixels that are
\* not white once it is drawn on the print data canvas.

\* Math.min(maxPrintWidthRef.current, sourceCanvas.width)
RawWidth(maxPrintWidth, sourceWidth) == Min(maxPrintWidth, sourceWidth)

UnalignedWidth(maxPrintWidth, sourceWidth) ==
  Min(maxPrintWidth, sourceWidth)

\* Math.max(1, Math.floor(rawWidth / 8)) * 8
TargetWidth(maxPrintWidth, sourceWidth) ==
  Max(1, RawWidth(maxPrintWidth, sourceWidth) \div 8) * 8

\* Math.max(8, Math.round(sourceCanvas.height * scale)), scale being
\* targetWidth / sourceCanvas.width
TargetHeight(sourceHeight, sourceWidth, targetWidth) ==
  Max(8, Round(sourceHeight * targetWidth, sourceWidth))

\* The source canvases followed: every width up to MaxSourceWidth and the
\* widths around the two print widths, every height up to MaxSourceHeight.
MaxSourceWidth == 20
MaxSourceHeight == 3
SourceWidths ==
  (0 .. MaxSourceWidth)
  \cup {WIDTH_TO_PIXELS[mm] + d : mm \in DOMAIN WIDTH_TO_PIXELS, d \in {-1, 0, 1}}

PrepareCalls ==
  [fn : {"preparePrintData"}, sourceWidth : SourceWidths,
   sourceHeight : 0 .. MaxSourceHeight,
   maxPrintWidth : {WIDTH_TO_PIXELS[mm] : mm \in DOMAIN WIDTH_TO_PIXELS},
   context : BOOLEAN, pc : {"call"}, targetWidth : {0},
   width : {0}, height : {0}, blank : {TRUE},
   top : {0}, bottom : {0}, left : {0}, right : {0},
   trimmed : {"none"}, scaled : {"none"},
   stored : {[id |-> "unchanged", width |-> 0, height |-> 0]}]

InitPrepare == Fresh /\ profile = "app" /\ calc \in PrepareCalls

\* The columns and rows at which the drawn content may begin and end.
Edges(n) == {k \in {0, 1, 3, 7, 8, n \div 2, n - 9, n - 8, n - 1} :
               k >= 0 /\ k < n}
Ends(n) == {0, n - 1}

\* preparePrintData up to getImageData: without a canvas of some size the
\* stored buffer is cleared, without the print data canvas nothing is stored;
\* otherwise the source is drawn at targetWidth by targetHeight and read back.
PrepareCall ==
  /\ calc.fn = "preparePrintData"
  /\ calc.pc = "call"
  /\ IF calc.sourceWidth = 0 \/ calc.sourceHeight = 0
       THEN calc' = [calc EXCEPT !.pc = "done", !.stored.id = "null"]
     ELSE IF ~calc.context
       THEN calc' = [calc EXCEPT !.pc = "done"]
     ELSE LET targetWidth ==
                TargetWidth(calc.maxPrintWidth, calc.sourceWidth)
              targetHeight ==
                TargetHeight(calc.sourceHeight, calc.sourceWidth, targetWidth)
          IN \/ calc' = [calc EXCEPT !.pc = "read", !.targetWidth = targetWidth,
                                     !.width = targetWidth,
                                     !.height = targetHeight, !.blank = TRUE]
             \/ \E l, r \in Edges(targetWidth), t, b \in Ends(targetHeight) :
                  /\ l <= r /\ t <= b
                  /\ calc' = [calc EXCEPT
                                !.pc = "read", !.targetWidth = targetWidth,
                                !.width = targetWidth, !.height = targetHeight,
                                !.blank = FALSE, !.left = l, !.right = r,
                                !.top = t, !.bottom = b]

\* preparedImageData = trimImageMargins(preparedImageData): the scans stop at
\* the box of the content; a blank bitmap comes back as it is.
PrepareTrim ==
  /\ calc.fn = "preparePrintData"
  /\ calc.pc = "read"
  /\ LET top == IF calc.blank THEN calc.height ELSE calc.top
         bottom == IF calc.blank THEN calc.height - 1 ELSE calc.bottom
         left == IF calc.blank THEN calc.width ELSE calc.left
         right == IF calc.blank THEN calc.width - 1 ELSE calc.right
         span == AlignedSpan(calc.width, left, right)
     IN calc' = IF Collapsed(top, bottom, left, right)
                  THEN [calc EXCEPT !.pc = "trimmed", !.trimmed = "source"]
                  ELSE [calc EXCEPT
                          !.pc = "trimmed", !.trimmed = "trimmed",
                          !.width = span.right - span.left + 1,
                          !.height = bottom - top + 1]

\* preparedImageData = scaleImageDataToWidth(preparedImageData, targetWidth)
PrepareScale ==
  /\ calc.fn = "preparePrintData"
  /\ calc.pc = "trimmed"
  /\ calc' = IF calc.width = calc.targetWidth
               THEN [calc EXCEPT !.pc = "scaled", !.scaled = "source"]
               ELSE [calc EXCEPT
                       !.pc = "scaled", !.scaled = "scaled",
                       !.width = calc.targetWidth,
                       !.height = ScaledHeight(calc.height, calc.width,
                                               calc.targetWidth)]

\* The buffer is dithered in place and stored in imageDataForPrintRef.
PrepareStore ==
  /\ calc.fn = "preparePrintData"
  /\ calc.pc = "scaled"
  /\ calc' = [calc EXCEPT !.pc = "done",
                          !.stored = [id |-> "bitmap", width |-> calc.width,
                                      height |-> calc.height]]

NextPrepare ==
  /\ PrepareCall \/ PrepareTrim \/ PrepareScale \/ PrepareStore
  /\ UNCHANGED refs

SpecPrepare == InitPrepare /\ [][NextPrepare]_vars

\* ---------------------------------------------------------------- properties

\* A step in which invocation s hands a new write to the characteristic (the
\* fallback's second attempt at the same bytes is not a new write).
NewWrite(s) ==
  /\ proc'[s].pc = "write"
  /\ \/ proc[s].pc # "write"
     \/ proc'[s].phase # proc[s].phase
     \/ proc'[s].nChunks # proc[s].nChunks
     \/ proc'[s].remaining # proc[s].remaining

\* A step in which invocation s cuts a bitmap chunk from the buffer.
Cut(s) == proc'[s].nChunks = proc[s].nChunks + 1

InTransfer(s) == proc[s].op = "print" /\ proc[s].phase # "none"

\* C1: within one session the writes are issued in program order: the reset
\* first, then the bitmap chunks in ascending offset order, then the dot feed,
\* then the line feed, each only when the write before it has completed.
C1_WriteOrder ==
  [][\A s \in Procs : NewWrite(s) =>
       LET a == proc[s].phase
           b == proc'[s].phase
       IN /\ proc'[s].inFlight = 1
          /\ b = "reset" => a = "none"
          /\ b = "bitmap" => \/ a = "reset" /\ proc'[s].index = 0
                             \/ /\ a = "bitmap"
                                /\ proc'[s].index = proc[s].end
                                /\ proc'[s].index > proc[s].index
          /\ b = "dots" => a \in {"reset", "bitmap", "dots"}
          /\ b = "lines" => a = "dots"]_vars

\* C2: the chunks of a session that completes partition its packed buffer:
\* the first starts at 0, each starts where the one before ended, only the
\* last may be shorter than the chunk size, the last ends at L, and with one
\* chunk size C throughout there are ceil(L/C) chunks.
C2_Contiguous ==
  \A s \in Procs : Cut(s) =>
    /\ proc'[s].index = IF proc[s].nChunks = 0 THEN 0 ELSE proc[s].end
    /\ proc'[s].end > proc'[s].index
    /\ proc'[s].end - proc'[s].index <= proc'[s].size
    /\ proc'[s].end - proc'[s].index < proc'[s].size
         => proc'[s].end = proc'[s].packed

C2_Covered ==
  (ended.op = "print" /\ ended.outcome = "success"
     /\ ended.packed > HEADER_LENGTH) =>
    /\ ended.end = ended.packed
    /\ ended.uniform =>
         ended.nChunks = (ended.packed + ended.size - 1) \div ended.size

C2_Partition == [][C2_Contiguous]_vars /\ []C2_Covered

\* C3: once an unacknowledged write has failed on a connection, no write on
\* that connection is attempted unacknowledged and the capability flag stays
\* false until a connection is established again.
C3_StickyDowngrade ==
  /\ downgraded => ~canWriteWithoutResponse
  /\ \A s \in Procs : ~proc[s].lateUnack

\* C3 witness: on a downgraded connection a chunk cut at the acknowledged
\* size (so cut after the downgrade) is being written with writeValue.
C3_Witness ==
  /\ downgraded
  /\ profile = "hook"
  /\ \E s \in Procs :
       /\ proc[s].pc = "write" /\ proc[s].phase = "bitmap"
       /\ proc[s].mode = "ack" /\ proc[s].capValid
       /\ proc[s].size = BLE_CHUNK_SIZE_WITH_RESPONSE

\* A step in which the write invocation s has in flight settles or is replaced.
Moved(s) == proc'[s].pc # "write" \/ proc'[s].mode # proc[s].mode \/ NewWrite(s)

\* C4: an unacknowledged write of writeChunk that fails is followed at once
\* by the same bytes sent with writeValue and the flag cleared; writeChunk
\* fails only when that write fails too, and otherwise goes on to its delay.
C4_Fallback ==
  [][\A s \in Procs :
       (proc[s].pc = "write" /\ proc[s].mode = "unack" /\ Moved(s)) =>
         \/ proc'[s].pc = "delay"
         \/ /\ proc'[s].pc = "write" /\ proc'[s].mode = "ack"
            /\ proc'[s].inFlight = 1
            /\ proc'[s].phase = proc[s].phase
            /\ proc'[s].index = proc[s].index /\ proc'[s].end = proc[s].end
            /\ ~canWriteWithoutResponse']_vars

\* C4 witness: a chunk cut at the unacknowledged size has gone out with
\* writeValue and writeChunk is in its pacing delay.
C4_Witness ==
  \E s \in Procs :
    /\ proc[s].pc = "delay" /\ proc[s].phase = "bitmap" /\ proc[s].mode = "ack"
    /\ profile = "hook" /\ proc[s].size = BLE_CHUNK_SIZE_WITHOUT_RESPONSE
    /\ ~canWriteWithoutResponse

\* C5: a chunk cut while the capability flag is false has at most 20 bytes,
\* a chunk cut while it is true is cut at a size of 120 to 256 bytes.
C5_ChunkSize ==
  [][\A s \in Procs : Cut(s) =>
       IF canWriteWithoutResponse'
         THEN proc'[s].size >= 120 /\ proc'[s].size <= 256
         ELSE proc'[s].end - proc'[s].index <= 20]_vars

\* C6: a write that fails ends the session: the invocation returns through
\* the catch block with an error, having issued no further write.
C6_Reported ==
  ended.writeFailed =>
    /\ ended.op = "print" /\ ended.outcome = "error"
    /\ printerStatus \in {"error", "disconnected"}

C6_NoFurtherWrite ==
  \A s \in Procs :
    (proc[s].pc = "write" /\ proc[s].mode = "ack" /\ ~proc[s].capValid
       /\ Moved(s)) =>
      /\ proc'[s] = IdleProc
      /\ ended'.writeFailed /\ ended'.outcome = "error"

C6_FailedWriteFailsSession == []C6_Reported /\ [][C6_NoFurtherWrite]_vars

\* C6 witness: a session has ended in error on a failed bitmap chunk with
\* part of its buffer unsent.
C6_Witness ==
  /\ ended.writeFailed /\ ended.outcome = "error"
  /\ ended.nChunks >= 1 /\ ended.end < ended.packed

\* C7: a session during which the disconnect event was handled is never
\* reported as a successful print.
C7_NoSuccessAfterDisconnect ==
  ~(ended.op = "print" /\ ended.outcome = "success" /\ ended.sawDisconnect)

\* C8: when a session has ended with a transfer error the cached
\* characteristic is cleared and the printer is marked disconnected.
C8_ResetAfterError ==
  (ended.op = "print" /\ ended.writeFailed) =>
    printCharacteristic = "null" /\ printerStatus = "disconnected"

\* C9: a session has at most one write in flight, and the chunk after a
\* bitmap chunk is cut only by the step in which the pacing delay after that
\* chunk's write ends.
C9_OneInFlight == \A s \in Procs : proc[s].inFlight <= 1

C9_CutAfterDelay ==
  \A s \in Procs :
    (Cut(s) /\ proc[s].phase = "bitmap") => proc[s].pc = "delay"

C9_OneWritePaced == []C9_OneInFlight /\ [][C9_CutAfterDelay]_vars

\* C9 witness: the second chunk of a session is in flight.
C9_Witness ==
  \E s \in Procs :
    /\ proc[s].pc = "write" /\ proc[s].phase = "bitmap"
    /\ proc[s].nChunks >= 2 /\ proc[s].inFlight = 1

\* C10: at most one transfer session is in flight at any time.
C10_OneSession == Cardinality({s \in Procs : InTransfer(s)}) <= 1

RECURSIVE SumSeq(_)
SumSeq(q) == IF q = <<>> THEN 0 ELSE Head(q) + SumSeq(Tail(q))

\* What C11 says of the commands sendFeedDots(d) has emitted: each N is in
\* 1..255, every one but the last is 255, there are at most four, none for
\* d <= 0, and when the function has returned they sum to min(1020, max(0, d)).
DotsAsClaimed ==
  LET d == calc.arg
      e == calc.emitted
      total == IF d <= 0 THEN 0 ELSE IF d > 1020 THEN 1020 ELSE d
  IN /\ \A i \in 1..Len(e) : e[i] >= 1 /\ e[i] <= 255
     /\ \A i \in 1..(Len(e) - 1) : e[i] = 255
     /\ Len(e) <= 4
     /\ d <= 0 => e = <<>>
     /\ calc.pc = "done" => SumSeq(e) = total

\* C11: for every dot count d, sendFeedDots emits commands 1B 4A N with the
\* N as DotsAsClaimed says.
C11_FeedDots == calc.fn = "sendFeedDots" => DotsAsClaimed

\* C11 with a characteristic cached when sendFeedDots is called.
C11_FeedDotsConnected ==
  (calc.fn = "sendFeedDots" /\ calc.characteristic) => DotsAsClaimed

\* What C12 says of sendFeedLines(n): at most one command 1B 64 N, with
\* N = min(255, max(0, n)), and none at all when that N is 0.
LinesAsClaimed ==
  LET n == calc.arg
      e == calc.emitted
      count == IF n <= 0 THEN 0 ELSE IF n > 255 THEN 255 ELSE n
  IN /\ Len(e) <= 1
     /\ \A i \in 1..Len(e) : e[i] = count
     /\ count = 0 => e = <<>>
     /\ (calc.pc = "done" /\ count > 0) => Len(e) = 1

\* C12: for every line count n, sendFeedLines emits the single command
\* LinesAsClaimed describes, or none when the count is 0.
C12_FeedLines == calc.fn = "sendFeedLines" => LinesAsClaimed

\* C12 with a characteristic cached when sendFeedLines is called.
C12_FeedLinesConnected ==
  (calc.fn = "sendFeedLines" /\ calc.characteristic) => LinesAsClaimed

\* C13: a packed command of length 0 or at most 8 has no bitmap chunk
\* written, and its session goes on to the dot-feed and line-feed commands
\* and succeeds.
C13_EmptyPayload ==
  /\ \A s \in Procs : proc[s].phase = "bitmap" => proc[s].data > HEADER_LENGTH
  /\ (ended.op = "print" /\ ended.outcome = "success"
        /\ ended.packed <= HEADER_LENGTH) =>
       ended.nChunks = 0 /\ ended.phase = "lines"

\* C13 while no disconnect was observed by the session: no bitmap write,
\* and a successful session ended on the line-feed write.
C13_EmptyPayloadLinked ==
  /\ \A s \in Procs : proc[s].phase = "bitmap" => proc[s].data > HEADER_LENGTH
  /\ (ended.op = "print" /\ ended.outcome = "success"
        /\ ended.packed <= HEADER_LENGTH /\ ~ended.sawDisconnect) =>
       ended.nChunks = 0 /\ ended.phase = "lines"

\* C14: right after connectToSelectedDevice completes, the capability flag is
\* true exactly when the new characteristic advertises writeWithoutResponse
\* and provides writeValueWithoutResponse, whatever the flag was before and
\* whether or not it had been downgraded.
C14_FlagReevaluated ==
  established.device # "null" =>
    /\ canWriteWithoutResponse =
         (established.advertises /\ established.provides)
    /\ ~downgraded

\* A connection made after a downgrade turns the flag on again.
C14_Witness ==
  /\ established.device # "null"
  /\ established.wasDowngraded /\ ~established.previous
  /\ canWriteWithoutResponse

\* C15: for a bitmap of width W (a multiple of 8) and height H the buffer of
\* getImagePrintData has 8 + (W/8)*H bytes, and the payload is written from
\* index 8 on, every index once, row by row: the byte of row y and
\* byte-column xb goes to index 8 + y*(W/8) + xb.
C15_PackedLayout ==
  (calc.fn = "getImagePrintData" /\ calc.image /\ calc.pc # "call") =>
    LET rowBytes == calc.width \div 8
        w == calc.writes
    IN /\ calc.length = 8 + rowBytes * calc.height
       /\ \A k \in 1 .. Len(w) :
            /\ w[k].index = 8 + (k - 1)
            /\ w[k].index = 8 + w[k].y * rowBytes + w[k].xByte
            /\ w[k].xByte < rowBytes /\ w[k].y < calc.height
       /\ calc.pc = "done" => Len(w) = calc.length - 8

\* A returned buffer of several rows and several bytes per row.
C15_Witness ==
  /\ calc.fn = "getImagePrintData" /\ calc.image /\ calc.pc = "done"
  /\ calc.width = 16 /\ calc.height = 3 /\ calc.pattern = "mixed"
  /\ Len(calc.writes) = 6
  /\ calc.writes[4].index = 11 /\ calc.writes[4].y = 1

\* C16: the header of every packed command decodes to the bitmap it was made
\* from: 1D 76 30 00, header[5] = 0, header[4]*8 = W and
\* header[6] + 256*header[7] = H.
C16_HeaderDecodes ==
  (calc.fn = "getImagePrintData" /\ calc.image /\ calc.pc # "call") =>
    LET h == calc.header
    IN /\ h[1] = 29 /\ h[2] = 118 /\ h[3] = 48 /\ h[4] = 0
       /\ h[6] = 0
       /\ h[5] * 8 = calc.width
       /\ h[7] + 256 * h[8] = calc.height

\* C16 for bitmaps of at most 65535 rows.
C16_HeaderDecodesUpTo65535 ==
  (calc.fn = "getImagePrintData" /\ calc.image /\ calc.pc # "call"
     /\ calc.height <= 65535) =>
    LET h == calc.header
    IN /\ h[1] = 29 /\ h[2] = 118 /\ h[3] = 48 /\ h[4] = 0
       /\ h[6] = 0
       /\ h[5] * 8 = calc.width
       /\ h[7] + 256 * h[8] = calc.height

C18_ScaledToWidth ==
  (calc.fn = "scaleImageDataToWidth" /\ calc.image /\ calc.pc = "done") =>
    LET w == calc.width
        h == calc.height
        t == calc.targetWidth
        r == calc.result
    IN /\ r.width = t
       /\ w = t => r.id = "source" /\ r.height = h
       /\ w # t =>
            /\ r.id = "scaled"
            /\ r.height >= 8
            /\ 2 * h * t + w < 2 * w * (r.height + 1)
            /\ r.height > 8 => 2 * w * r.height <= 2 * h * t + w

\* A narrow bitmap scaled up: 5 * 16 / 3 = 26.67 rows become 27.
C18_Witness ==
  /\ calc.fn = "scaleImageDataToWidth" /\ calc.image /\ calc.pc = "done"
  /\ calc.width = 3 /\ calc.height = 5 /\ calc.targetWidth = 16
  /\ calc.result = [id |-> "scaled", width |-> 16, height |-> 27]

\* Whether the bitmap trimImageMargins is applied to has a pixel that does
\* not count as white.
HasContent ==
  \E x \in 0 .. calc.width - 1, y \in 0 .. calc.height - 1 :
    ~pixelIsWhite(calc, x, y)

C20_BlankReturned ==
  (calc.fn = "trimImageMargins" /\ calc.image /\ calc.pc = "done"
     /\ ~HasContent) =>
    calc.result = [id |-> "source", width |-> calc.width,
                   height |-> calc.height]

\* A blank bitmap of several rows and a width that is no multiple of 8,
\* returned.
C20_Witness ==
  /\ calc.fn = "trimImageMargins" /\ calc.image /\ calc.pc = "done"
  /\ ~HasContent /\ calc.width = 13 /\ calc.height = 2
  /\ calc.result.id = "source"

\* Whether the buffer trimImageMargins is applied to has a non-white pixel
\* in its first and last row and in its first and last column.
NoWhiteBorder ==
  /\ ~rowIsWhite(calc, 0) /\ ~rowIsWhite(calc, calc.height - 1)
  /\ ~columnIsWhite(calc, 0, 0, calc.height - 1)
  /\ ~columnIsWhite(calc, calc.width - 1, 0, calc.height - 1)

\* C21: trimImageMargins applied to a buffer without a white border row or
\* column and of a width that is a multiple of 8 returns a buffer of the same
\* width and height with the same pixels; and applied to the buffer a first
\* trim returned, it returns a buffer of the same width and height.
C21_TrimIdempotent ==
  (calc.fn = "trimImageMargins" /\ calc.image /\ calc.pc = "done") =>
    /\ (NoWhiteBorder /\ calc.width % 8 = 0) =>
         /\ calc.result.width = calc.width
         /\ calc.result.height = calc.height
         /\ \A x \in 0 .. calc.width - 1, y \in 0 .. calc.height - 1 :
              ResultPixel(calc, x, y) = TrimPixel(calc, x, y)
    /\ (calc.pass = 2 /\ calc.first.width % 8 = 0) =>
         /\ calc.result.width = calc.first.width
         /\ calc.result.height = calc.first.height

\* A second trim of a trimmed buffer that was padded to 8 columns around
\* translucent content, and so has white columns of its own.
C21_Witness ==
  /\ calc.fn = "trimImageMargins" /\ calc.image /\ calc.pc = "done"
  /\ calc.pass = 2 /\ calc.first = [id |-> "trimmed", width |-> 8, height |-> 1]
  /\ calc.x0 = 5 /\ calc.x1 = 6 /\ calc.filling.content[4] = 128
  /\ HasContent /\ ~NoWhiteBorder
  /\ calc.result = [id |-> "trimmed", width |-> 8, height |-> 1]

\* C27: for a buffer with a non-white pixel, the rectangle trimImageMargins
\* copies lies inside the buffer and holds every non-white pixel; its rows
\* are exactly the rows from the first to the last with content, and its
\* columns reach at least from the first to the last column with content.
C27_ContentKept ==
  (calc.fn = "trimImageMargins" /\ calc.image /\ calc.pc = "done"
     /\ HasContent) =>
    LET dark == {p \in (0 .. calc.width - 1) \X (0 .. calc.height - 1) :
                   ~pixelIsWhite(calc, p[1], p[2])}
    IN /\ calc.result.id = "trimmed"
       /\ 0 <= calc.left /\ calc.left <= calc.right
       /\ calc.right <= calc.width - 1
       /\ 0 <= calc.top /\ calc.top <= calc.bottom
       /\ calc.bottom <= calc.height - 1
       /\ \A p \in dark : /\ calc.left <= p[1] /\ p[1] <= calc.right
                           /\ calc.top <= p[2] /\ p[2] <= calc.bottom
       /\ \E p \in dark : p[2] = calc.top
       /\ \E p \in dark : p[2] = calc.bottom
       /\ calc.result.width = calc.right - calc.left + 1
       /\ calc.result.height = calc.bottom - calc.top + 1

\* One pixel of content in the last column and last row of a bitmap 16 wide
\* and 2 high: a rectangle of one row, widened to the left only.
C27_Witness ==
  /\ calc.fn = "trimImageMargins" /\ calc.image /\ calc.pc = "done"
  /\ calc.pass = 1 /\ calc.width = 16 /\ calc.height = 2
  /\ calc.x0 = 15 /\ calc.x1 = 15 /\ calc.y0 = 1 /\ calc.y1 = 1
  /\ calc.left = 8 /\ calc.right = 15 /\ calc.top = 1 /\ calc.bottom = 1
  /\ calc.result = [id |-> "trimmed", width |-> 8, height |-> 1]

\* C22: when handleSetupPrinter or handlePrint ends on a NotFoundError, the
\* printer status is 'disconnected' and no error message is shown.
C22_QuietCancellation ==
  ended.outcome = "cancelled" =>
    printerStatus = "disconnected" /\ ~ended.message

\* C22 without the message: the status after a NotFoundError is
\* 'disconnected', never 'error'; and the script shows no message.
C22_StatusDisconnected ==
  ended.outcome = "cancelled" =>
    /\ printerStatus = "disconnected"
    /\ profile = "script" => ~ended.message

\* The pacing delay writeChunk applies when the flag is false: a delay of
\* every profile met with the flag false is this one.
AckDelayMs ==
  CASE profile = "hook" -> BLE_WRITE_DELAY_WITH_RESPONSE_MS
    [] profile = "app" -> APP_WRITE_DELAY_WITH_RESPONSE_MS
    [] OTHER -> BLE_WRITE_DELAY_MS

C23_DelayByFlag ==
  \A s \in Procs :
    proc[s].pc = "delay" =>
      /\ (proc[s].delayFlag /\ profile # "script") =>
           proc[s].delayMs > AckDelayMs
      /\ (proc[s].delayFlag /\ profile = "script") =>
           proc[s].delayMs = AckDelayMs
      /\ ~proc[s].delayFlag => proc[s].delayMs = AckDelayMs

C23_DelayAfterFallback ==
  \A s \in Procs :
    (proc[s].pc = "write" /\ proc'[s].pc = "delay" /\ downgraded) =>
      ~proc'[s].delayFlag /\ proc'[s].delayMs = AckDelayMs

BitOf(byte, b) == (byte \div 2 ^ (7 - b)) % 2 = 1

C24_BitPerPixel ==
  (calc.fn = "getImagePrintData" /\ calc.image) =>
    \A k \in 1 .. Len(calc.writes) : \A b \in 0 .. 7 :
      LET w == calc.writes[k]
          px == Pixel(calc.pattern, w.xByte * 8 + b, w.y)
          dark == 299 * px[1] + 587 * px[2] + 114 * px[3]
                    < 1000 * DITHER_THRESHOLD
      IN /\ BitOf(w.byte, b) <=> (px[4] # 0 /\ dark)
         /\ px[4] = 0 => ~BitOf(w.byte, b)
         /\ calc.pattern = "dithered" =>
              (BitOf(w.byte, b) <=> px = <<0, 0, 0, 255>>)

\* A returned buffer with a byte made of set and unset bits, one of the unset
\* ones being a dark pixel of alpha 0.
C24_Witness ==
  /\ calc.fn = "getImagePrintData" /\ calc.image /\ calc.pc = "done"
  /\ calc.pattern = "edge" /\ calc.width = 16 /\ calc.height = 2
  /\ \E k \in 1 .. Len(calc.writes) :
       /\ calc.writes[k].byte \notin {0, 255}
       /\ \E b \in 0 .. 7 :
            LET px == Pixel("edge", calc.writes[k].xByte * 8 + b,
                            calc.writes[k].y)
            IN px[4] = 0 /\ ~BitOf(calc.writes[k].byte, b)

\* C25: for a source canvas of non-zero width and height and a maximum print
\* width of 384 or 576, the buffer preparePrintData stores is exactly
\* 8 * max(1, floor(min(maxPrintWidth, sourceWidth) / 8)) wide: a multiple of
\* 8, at least 8 and at most the maximum print width, also when the trimmer
\* returned the blank bitmap as it was and when the source is narrower than 8.
C25_StoredWidth ==
  (calc.fn = "preparePrintData" /\ calc.stored.id = "bitmap") =>
    LET least == IF calc.maxPrintWidth < calc.sourceWidth
                   THEN calc.maxPrintWidth ELSE calc.sourceWidth
        eighths == IF least \div 8 < 1 THEN 1 ELSE least \div 8
    IN /\ calc.sourceWidth # 0 /\ calc.sourceHeight # 0
       /\ calc.stored.width = 8 * eighths
       /\ calc.stored.width % 8 = 0
       /\ calc.stored.width >= 8
       /\ calc.stored.width <= calc.maxPrintWidth

\* A blank source narrower than 8 pixels: the trimmer returned the bitmap as
\* it was and the stored buffer is 8 wide.
C25_Witness ==
  /\ calc.fn = "preparePrintData" /\ calc.stored.id = "bitmap"
  /\ calc.sourceWidth = 5 /\ calc.maxPrintWidth = 384
  /\ calc.blank /\ calc.trimmed = "source"
  /\ calc.stored.width = 8

\* A source whose drawn content was trimmed to fewer columns than the target
\* and scaled back to it.
C25_WitnessScaled ==
  /\ calc.fn = "preparePrintData" /\ calc.stored.id = "bitmap"
  /\ calc.sourceWidth = 577 /\ calc.maxPrintWidth = 576
  /\ calc.trimmed = "trimmed" /\ calc.scaled = "scaled"
  /\ calc.stored.width = 576

\* C26: the transfer state is fresh for every print invocation: whatever
\* became of the sessions before it, a handlePrint that reaches the transfer
\* writes the reset command first, packs the buffer anew from the bitmap
\* prepared at that time and cuts its first chunk at cursor 0 of that buffer;
\* it never goes on from the cursor or the buffer of an earlier session.
FirstWrite(s) == proc[s].phase = "none" /\ proc'[s].phase # "none"
FirstCut(s) == proc[s].nChunks = 0 /\ Cut(s)

C26_StartsAtReset ==
  \A s \in Procs : FirstWrite(s) => proc'[s].phase = "reset"

C26_BitmapFromZero ==
  \A s \in Procs : FirstCut(s) =>
    /\ proc'[s].index = 0
    /\ proc'[s].packed = PackedLength(imageDataForPrint)
    /\ proc'[s].data = proc'[s].packed
    /\ transferData' = <<proc'[s].packed>>

C26_FreshTransfer ==
  [][C26_StartsAtReset /\ C26_BitmapFromZero]_vars

\* The same for the hook alone, and the bitmap part for every copy.
C26_FreshTransferHook ==
  [][profile = "hook" => (C26_StartsAtReset /\ C26_BitmapFromZero)]_vars
C26_FreshBitmap == [][C26_BitmapFromZero]_vars

\* C29: throughout the bitmap phase of a session over a buffer of length L
\* the cursor stays within 0..L and never decreases; it moves only to the end
\* of a chunk whose writeChunk has resolved (write and pacing delay); and
\* when the write of a chunk fails the cursor is still at the start offset
\* of that chunk.
InBitmap(s) == proc[s].op = "print" /\ proc[s].phase = "bitmap"

C29_WithinBuffer ==
  \A s \in Procs : InBitmap(s) =>
    transferIndex >= 0 /\ transferIndex <= proc[s].data

C29_NeverDecreases ==
  \A s \in Procs : (InBitmap(s) /\ proc'[s].phase = "bitmap") =>
    transferIndex' >= transferIndex

C29_AfterResolved ==
  \A s \in Procs : (InBitmap(s) /\ transferIndex' # transferIndex) =>
    /\ proc[s].pc = "delay"
    /\ transferIndex' = proc[s].end

C29_FailedAtStart ==
  \A s \in Procs :
    (InBitmap(s) /\ proc[s].pc = "write" /\ proc[s].mode = "ack"
       /\ ended'.writeFailed /\ proc'[s].pc = "idle") =>
      transferIndex' = proc[s].index

C29_CursorInvariant ==
  /\ []C29_WithinBuffer
  /\ [][C29_NeverDecreases /\ C29_AfterResolved /\ C29_FailedAtStart]_vars

\* C30: the dot-feed and line-feed commands go out with writeValue, never
\* with writeValueWithoutResponse, whatever the capability flag; a feed
\* command that has been sent leaves the capability flag and the transfer
\* cursor as they were, and no pacing delay follows it.
FeedPhases == {"dots", "lines"}

\* A step in which the feed command of invocation s in flight resolves.
FeedSent(s) ==
  /\ proc[s].pc = "write" /\ proc[s].phase \in FeedPhases
  /\ \/ /\ proc'[s].pc = "write"
        /\ \/ proc'[s].phase # proc[s].phase
           \/ proc'[s].remaining # proc[s].remaining
     \/ proc'[s].pc = "idle" /\ ended'.outcome = "success"

C30_FeedAcknowledged ==
  \A s \in Procs :
    /\ (proc[s].pc = "write" /\ proc[s].phase \in FeedPhases) =>
         proc[s].mode = "ack"
    /\ proc[s].pc = "delay" => proc[s].phase \notin FeedPhases

C30_FeedFrame ==
  \A s \in Procs : FeedSent(s) =>
    /\ canWriteWithoutResponse' = canWriteWithoutResponse
    /\ transferIndex' = transferIndex
    /\ proc'[s].pc # "delay"

C30_FeedWrites == []C30_FeedAcknowledged /\ [][C30_FeedFrame]_vars

\* A line-feed command in flight, acknowledged, while the capability flag is
\* true, after the bitmap went out unacknowledged.
C30_Witness ==
  /\ canWriteWithoutResponse
  /\ \E s \in Procs :
       /\ proc[s].pc = "write" /\ proc[s].phase = "lines"
       /\ proc[s].mode = "ack" /\ proc[s].nChunks > 0
       /\ transferIndex = proc[s].data

\* C28: provided every write handed to the characteristic and every pacing
\* delay eventually completes, every transfer session of handlePrint
\* eventually ends, in success or in failure, and the progress indicator is
\* hidden when it does; and there is no timeout: a session waiting for a
\* write goes on or ends only in a step that completes that write.
C28_Terminates ==
  \A s \in Procs : InTransfer(s) ~> (proc[s].pc = "idle")

C28_ProgressHidden ==
  (ended.op = "print") =>
    ended.hidden /\ ended.outcome \in {"success", "error", "cancelled"}

C28_NoTimeout ==
  \A s \in Procs :
    (InTransfer(s) /\ proc[s].pc = "write"
       /\ (proc'[s].pc # "write" \/ proc'[s].inFlight # proc[s].inFlight
           \/ proc'[s].phase # proc[s].phase
           \/ proc'[s].mode # proc[s].mode)) =>
      WriteResolves(s) \/ WriteRejects(s)

C28_Termination ==
  C28_Terminates /\ []C28_ProgressHidden /\ [][C28_NoTimeout]_vars

\* A print session has just ended in failure after a rejected write, the
\* progress indicator hidden.
C28_Witness ==
  /\ ended.op = "print" /\ ended.outcome = "error" /\ ended.writeFailed
  /\ ended.hidden /\ ended.nChunks > 1

\* With invocations under way together: what is left of a session, which
\* every completed write and delay of the session brings down and no step of
\* another invocation brings up.
MaxPacked ==
  CHOOSE m \in {PackedLength(img) : img \in Images} :
    \A img \in Images : PackedLength(img) <= m

Left(p) ==
  LET pending == CASE p.pc = "delay" -> 0
                   [] p.mode = "ack" -> 1
                   [] OTHER -> 2
  IN CASE p.phase = "reset" -> 3 * (MaxPacked + 300) + pending
       [] p.phase = "bitmap" -> 3 * (MaxPacked - p.index + 281) + pending
       [] p.phase = "dots" -> 3 * (p.remaining \div 255 + 2) + pending
       [] p.phase = "lines" -> pending
       [] OTHER -> 0

C28_LessLeft ==
  \A s \in Procs : InTransfer(s) =>
    /\ (WriteResolves(s) \/ WriteRejects(s) \/ DelayElapses(s)) =>
         proc'[s].pc = "idle" \/ Left(proc'[s]) < Left(proc[s])
    /\ proc'[s].pc # "idle" => Left(proc'[s]) <= Left(proc[s])

C28_Progress == [][C28_LessLeft]_vars

====
